---- MODULE Spec2Model ----
(***************************************************************************)
(* Session/job manager of glia-fab-desktop (src-tauri/src/main.rs).        *)
(*                                                                         *)
(* The interactive part models the registry PtyState.sessions, the command *)
(* handlers pty_create / pty_write / pty_resize / pty_kill / pty_list and  *)
(* the two threads every session owns (output pump, exit watcher).  The    *)
(* job part models job_start and its two threads.                          *)
(*                                                                         *)
(* Granularity.  A block that takes the registry mutex, does one map       *)
(* operation and drops the guard is one atomic step; so is a block that    *)
(* takes the child or the master mutex for a single call.  The writer      *)
(* mutex is held across write_all, which is a loop of writes, so it is     *)
(* modelled with an explicit owner.  Mutex poisoning needs a panic while a *)
(* guard is held; no guarded block of main.rs can panic, so the            *)
(* "lock poisoned" branches are not reachable and are not modelled.        *)
(* Uuid::new_v4() is modelled as a fresh identifier (never issued before). *)
(***************************************************************************)
EXTENDS Integers, Sequences, FiniteSets, TLC

\* ---------------------------------------------------------------- bounds
MaxSessions == 2
MaxCalls == 3
MaxLen == 2
MaxJobs == 1
MaxChunks == 2
MaxWatched == 2
MaxUrl == 4

\* ------------------------------------------------------- program constants
DefaultCols == 120
DefaultRows == 34

Slots == 1..MaxSessions
Jobs == 1..MaxJobs
Callers == {1, 2}
NoOwner == 0
ExitCodes == {0, 3}
\* Option<u32>: None and Some(c)
None == << >>
Some(c) == << c >>
\* identifier strings a caller can pass: 0 stands for a string that is not
\* the text of a UUID, k > 0 for the text of the UUID of slot k
IdStrings == 0..MaxSessions
Sizes == { <<80, 24>> }

VARIABLES
  sessions,    \* PtyState.sessions: HashMap<Uuid, Arc<PtySession>>, key -> info.id
  nextSlot,    \* number of sessions built so far (fresh identifiers)
  child,       \* per slot: "none" | "running" | "exited"
  exitCode,    \* per slot: the status the process exited with
  kills,       \* per slot: number of child.kill() calls made
  ptySize,     \* per slot: <<cols, rows>> of the terminal master
  writerLock,  \* per slot: owner of PtySession.writer, NoOwner when free
  delivered,   \* per slot: bytes that reached the process's input
  lockLog,     \* per slot: history of writer-lock acquisitions
  pump,        \* per slot: "none" | "reading" | "done"
  lateOutput,  \* per slot: a pty_output event was published after the pty_exit event
  watcher,     \* per slot: "none" | "poll" | "remove" | "emit" | "done"
  wcode,       \* per slot: exit_code computed by the watcher's loop
  exitEvents,  \* per slot: sequence of exit_code payloads of pty_exit events
  call,        \* per caller: the frame of the running handler
  ret,         \* the handler that returned last and what it returned
  listed,      \* the Vec returned by the last pty_list
  calls,       \* number of handler invocations so far
  \* ---- jobs (job_start and its two threads), per job
  nextJob,     \* number of job_start calls so far (fresh job identifiers)
  jpc,         \* position of the job_start call in JobStartOrder, 0: returned
  jret,        \* what the job_start call returned
  runDir,      \* the run directory exists
  runMeta,     \* run_meta.json has been written
  jpty,        \* a terminal pair has been allocated for the call
  jchild,      \* "none" | "running" | "exited"
  jexit,       \* the status the process exited with
  jpump,       \* "none" | "start" | "reading" | "append" | "emit" | "done"
  logOpen,     \* the pump has terminal.log open for appending
  chunksRead,  \* number of chunks the pump has read
  termLog,     \* terminal.log: the chunks appended, in order
  jobOutput,   \* the chunks published as job_output events, in order
  jwatcher,    \* "none" | "poll" | "result" | "emit" | "done"
  jwcode,      \* exit_code computed by the watcher's loop
  jobResult,   \* job_result.json: the exit codes written to it, in order
  jobExit,     \* the exit_code payloads of the job_exit events, in order
  \* ---- the local file server (start_local_server)
  roots,       \* WebRoots: viewer_dir and runs_dir, each None or Some(path)
  request,     \* the url of the request being handled, NoRequest between requests
  response,    \* the response to it, NoResponse while there is none
  \* ---- the mutexes of the sessions, where their holding is followed
  sessionsLock, \* owner of PtyState.sessions, NoOwner when free
  masterLock,   \* per slot: owner of PtySession.master
  childLock,    \* per slot: owner of PtySession.child
  \* ---- the shared ownership of the sessions
  released      \* per slot: the PtySession was dropped with its last Arc

ptyVars == << sessions, nextSlot, child, exitCode, kills, ptySize, writerLock,
              delivered, lockLog, pump, lateOutput, watcher, wcode, exitEvents,
              call, ret, listed, calls >>

jobVars == << nextJob, jpc, jret, runDir, runMeta, jpty, jchild, jexit, jpump,
              logOpen, chunksRead, termLog, jobOutput, jwatcher, jwcode,
              jobResult, jobExit >>

srvVars == << roots, request, response >>

lockVars == << sessionsLock, masterLock, childLock >>

arcVars == << released >>

vars == << ptyVars, jobVars, srvVars, lockVars, arcVars >>

\* what the session handlers and threads never touch, and what the job
\* threads never touch
nonPtyVars == << jobVars, srvVars, lockVars, arcVars >>
nonJobVars == << ptyVars, srvVars, lockVars, arcVars >>
nonSrvVars == << ptyVars, jobVars, lockVars, arcVars >>

\* ------------------------------------------------------- the file server
\* A string is a sequence of tokens: "/", ".", "?" are the characters, "x"
\* is any other character, "V" is the text "viewer", "A" the text
\* "artifacts" and "I" the text "index.html".  A PathBuf is the sequence of
\* its components.
Chars == { "/", ".", "?", "x", "V", "A" }
\* the urls of requests: "/" followed by up to MaxUrl tokens
Urls == UNION { { << "/" >> \o t : t \in [1..n -> Chars] } : n \in 0..MaxUrl }
ViewerMount == << "/", "V" >>
ArtifactsMount == << "/", "A" >>
IndexHtml == << "I" >>
ViewerDir == << << "x", "V" >> >>
RunsDir == << << "x" >>, << ".", "x" >>, << "x" >> >>
NoRequest == << >>
NoResponse == [status |-> 0, root |-> << >>, resolved |-> << >>, fs |-> "none"]
Respond(st, root, p, f) == [status |-> st, root |-> root, resolved |-> p, fs |-> f]

\* Uuid::parse_str: Some(uuid) for the text of a UUID, None otherwise
ParseUuid(str) == IF str \in Slots THEN Some(str) ELSE None

\* HashMap::insert
MapInsert(m, k, v) == [x \in (DOMAIN m) \cup {k} |-> IF x = k THEN v ELSE m[x]]
\* HashMap::remove
MapRemove(m, k) == [x \in (DOMAIN m) \ {k} |-> m[x]]
\* HashMap::get(..).cloned(): the slot of the session, 0 for None
MapGet(m, k) == IF k \in DOMAIN m THEN m[k] ELSE 0

\* the payload of a write call: n bytes, all the caller's own byte value
Payload(c, n) == [i \in 1..n |-> c]

\* the frame of a handler: pc its position, op the handler, sess the
\* Arc<PtySession> cloned by the lookup (0: none), data params.data of a write
\* or <<cols, rows>> of a resize, idx the index in lockLog of its acquisition
Frame(p, o, s, d, i) == [pc |-> p, op |-> o, sess |-> s, data |-> d, idx |-> i]

\* the frame of a caller that runs no handler
Idle == Frame("idle", "none", 0, << >>, 0)

Init ==
  /\ sessions = << >>
  /\ nextSlot = 0
  /\ child = [k \in Slots |-> "none"]
  /\ exitCode = [k \in Slots |-> 0]
  /\ kills = [k \in Slots |-> 0]
  /\ ptySize = [k \in Slots |-> <<DefaultCols, DefaultRows>>]
  /\ writerLock = [k \in Slots |-> NoOwner]
  /\ delivered = [k \in Slots |-> << >>]
  /\ lockLog = [k \in Slots |-> << >>]
  /\ pump = [k \in Slots |-> "none"]
  /\ lateOutput = [k \in Slots |-> FALSE]
  /\ watcher = [k \in Slots |-> "none"]
  /\ wcode = [k \in Slots |-> None]
  /\ exitEvents = [k \in Slots |-> << >>]
  /\ call = [c \in Callers |-> Idle]
  /\ ret = [op |-> "none", val |-> "none"]
  /\ listed = << >>
  /\ calls = 0
  /\ nextJob = 0
  /\ jpc = [j \in Jobs |-> 0]
  /\ jret = [j \in Jobs |-> "none"]
  /\ runDir = [j \in Jobs |-> FALSE]
  /\ runMeta = [j \in Jobs |-> FALSE]
  /\ jpty = [j \in Jobs |-> FALSE]
  /\ jchild = [j \in Jobs |-> "none"]
  /\ jexit = [j \in Jobs |-> 0]
  /\ jpump = [j \in Jobs |-> "none"]
  /\ logOpen = [j \in Jobs |-> FALSE]
  /\ chunksRead = [j \in Jobs |-> 0]
  /\ termLog = [j \in Jobs |-> << >>]
  /\ jobOutput = [j \in Jobs |-> << >>]
  /\ jwatcher = [j \in Jobs |-> "none"]
  /\ jwcode = [j \in Jobs |-> None]
  /\ jobResult = [j \in Jobs |-> << >>]
  /\ jobExit = [j \in Jobs |-> << >>]
  /\ roots = [viewer_dir |-> None, runs_dir |-> None]
  /\ request = NoRequest
  /\ response = NoResponse
  /\ sessionsLock = NoOwner
  /\ masterLock = [k \in Slots |-> NoOwner]
  /\ childLock = [k \in Slots |-> NoOwner]
  /\ released = [k \in Slots |-> FALSE]

\* str::starts_with
StartsWith(s, p) == Len(s) >= Len(p) /\ SubSeq(s, 1, Len(p)) = p

\* str::trim_start_matches: p is removed from the front as often as it is there
RECURSIVE TrimStartMatches(_, _)
TrimStartMatches(s, p) ==
  IF StartsWith(s, p) THEN TrimStartMatches(SubSeq(s, Len(p) + 1, Len(s)), p) ELSE s

\* requested_path.split('?').next().unwrap_or(""): the text before the first '?'
RECURSIVE BeforeQuery(_)
BeforeQuery(s) ==
  IF s = << >> \/ Head(s) = "?" THEN << >> ELSE << Head(s) >> \o BeforeQuery(Tail(s))

\* str::split('/'): the segments between the slashes, empty ones included
RECURSIVE SplitSlash(_)
SplitSlash(s) ==
  IF s = << >> THEN << << >> >>
  ELSE IF Head(s) = "/" THEN << << >> >> \o SplitSlash(Tail(s))
  ELSE LET r == SplitSlash(Tail(s)) IN << << Head(s) >> \o Head(r) >> \o Tail(r)

\* Result<PathBuf>: Ok(out) and Err("path traversal blocked")
JoinOk(out) == [ok |-> TRUE, path |-> out]
JoinErr == [ok |-> FALSE, path |-> << >>]

\* mutant: the parent-directory marker is pushed like any other segment
RECURSIVE PushParts_KeepsParent(_, _)
PushParts_KeepsParent(out, parts) ==
  IF parts = << >> THEN JoinOk(out)
  ELSE IF Head(parts) = << >> \/ Head(parts) = << "." >>
         THEN PushParts_KeepsParent(out, Tail(parts))
  ELSE PushParts_KeepsParent(Append(out, Head(parts)), Tail(parts))

\* the loop of safe_join over rel.split('/'): empty and "." segments are
\* skipped, ".." ends the call with Err, any other segment is pushed
RECURSIVE PushParts(_, _)
PushParts(out, parts) ==
  IF parts = << >> THEN JoinOk(out)
  ELSE IF Head(parts) = << >> \/ Head(parts) = << "." >>
         THEN PushParts(out, Tail(parts))
  ELSE IF Head(parts) = << ".", "." >> THEN JoinErr
  ELSE PushParts(Append(out, Head(parts)), Tail(parts))

safe_join(root, requested_path) ==
  LET path == BeforeQuery(requested_path)
      trimmed == TrimStartMatches(path, << "/" >>)
      rel == IF trimmed = << >> \/ trimmed[Len(trimmed)] = "/"
               THEN trimmed \o IndexHtml ELSE trimmed
  IN PushParts(root, SplitSlash(rel))

\* the root and the path a request is served from: the first mount the url
\* starts with, and the url with that mount trimmed off; none for other urls
Route(url) ==
  IF StartsWith(url, ViewerMount)
    THEN [mount |-> "viewer", root |-> roots.viewer_dir,
          path |-> TrimStartMatches(url, ViewerMount)]
  ELSE IF StartsWith(url, ArtifactsMount)
    THEN [mount |-> "artifacts", root |-> roots.runs_dir,
          path |-> TrimStartMatches(url, ArtifactsMount)]
  ELSE [mount |-> "none", root |-> None, path |-> << >>]

\* a command is handed to the first idle thread of the pool
CanInvoke(c) ==
  /\ call[c].pc = "idle"
  /\ \A d \in Callers : d < c => call[d].pc # "idle"
  /\ calls < MaxCalls

\* handler o of caller c goes on at p, holding session s and data d
Goto(c, p, o, s, d) ==
  /\ call' = [call EXCEPT ![c] = Frame(p, o, s, d, 0)]
  /\ UNCHANGED ret

\* handler o of caller c returns r: its locals are dropped
Return(c, o, r) ==
  /\ call' = [call EXCEPT ![c] = Idle]
  /\ ret' = [op |-> o, val |-> r]

\* mutant: the session is built and registered before the reader and the
\* writer are set up
PtyCreateSetup_RegistersEarly(c, outcome) ==
  /\ CanInvoke(c)
  /\ calls' = calls + 1
  /\ UNCHANGED << exitCode, kills, ptySize, writerLock, delivered, lockLog,
                  pump, lateOutput, watcher, wcode, exitEvents, listed >>
  /\ CASE outcome \in {"openpty_err", "spawn_err"} ->
            /\ Return(c, "create", "spawn_err")
            /\ UNCHANGED << sessions, nextSlot, child >>
       [] outcome \in {"reader_err", "writer_err"} ->
            /\ nextSlot < MaxSessions
            /\ nextSlot' = nextSlot + 1
            /\ child' = [child EXCEPT ![nextSlot + 1] = "running"]
            /\ sessions' = MapInsert(sessions, nextSlot + 1, nextSlot + 1)
            /\ Return(c, "create", "spawn_err")
       [] outcome = "ok" ->
            /\ nextSlot < MaxSessions
            /\ nextSlot' = nextSlot + 1
            /\ child' = [child EXCEPT ![nextSlot + 1] = "running"]
            /\ sessions' = MapInsert(sessions, nextSlot + 1, nextSlot + 1)
            /\ Goto(c, "c_launch", "create", nextSlot + 1, << >>)
  /\ UNCHANGED nonPtyVars

\* ------------------------------------------------------------ pty_create
\* openpty, spawn_command, try_clone_reader, take_writer (outcome names the
\* first of them that fails), then sessions.insert(id, session.clone()) under
\* the registry lock.  The steps before the insert act on nothing another
\* thread can see, so they are one step with it.
PtyCreateSetup(c, outcome) ==
  /\ CanInvoke(c)
  /\ calls' = calls + 1
  /\ UNCHANGED << exitCode, kills, ptySize, writerLock, delivered, lockLog,
                  pump, lateOutput, watcher, wcode, exitEvents, listed >>
  /\ CASE outcome \in {"openpty_err", "spawn_err"} ->
            /\ Return(c, "create", "spawn_err")
            /\ UNCHANGED << sessions, nextSlot, child >>
       [] outcome \in {"reader_err", "writer_err"} ->
            \* the shell was spawned; the early return drops its handle and
            \* the master, and no identifier was generated for it
            /\ Return(c, "create", "spawn_err")
            /\ UNCHANGED << sessions, nextSlot, child >>
       [] outcome = "ok" ->
            /\ nextSlot < MaxSessions
            /\ nextSlot' = nextSlot + 1
            /\ child' = [child EXCEPT ![nextSlot + 1] = "running"]
            /\ sessions' = MapInsert(sessions, nextSlot + 1, nextSlot + 1)
            /\ Goto(c, "c_launch", "create", nextSlot + 1, << >>)
  /\ UNCHANGED nonPtyVars

\* the two thread::spawn calls, then Ok(id.to_string())
PtyCreateLaunch(c) ==
  /\ call[c].pc = "c_launch"
  /\ pump' = [pump EXCEPT ![call[c].sess] = "reading"]
  /\ watcher' = [watcher EXCEPT ![call[c].sess] = "poll"]
  /\ Return(c, "create", "ok")
  /\ UNCHANGED << sessions, nextSlot, child, exitCode, kills, ptySize,
                  writerLock, delivered, lockLog, lateOutput, wcode, exitEvents,
                  listed, calls >>
  /\ UNCHANGED nonPtyVars

\* the lookup of write, resize and kill: Uuid::parse_str, then
\* sessions.get(&id).cloned() under the registry lock; 0 when the identifier
\* does not parse or names no entry
Lookup(id) == IF ParseUuid(id) = None THEN 0 ELSE MapGet(sessions, ParseUuid(id)[1])

\* ------------------------------------------------------------- pty_write
PtyWriteLookup(c, id, n) ==
  /\ CanInvoke(c)
  /\ calls' = calls + 1
  /\ UNCHANGED listed
  /\ IF ParseUuid(id) = None THEN Return(c, "write", "parse_err")
     ELSE IF Lookup(id) = 0 THEN Return(c, "write", "not_found")
     ELSE Goto(c, "w_lock", "write", Lookup(id), Payload(c, n))
  /\ UNCHANGED << sessions, nextSlot, child, exitCode, kills, ptySize,
                  writerLock, delivered, lockLog, pump, lateOutput, watcher,
                  wcode, exitEvents >>
  /\ UNCHANGED nonPtyVars

\* mutant: the writer is taken without waiting for the lock
PtyWriteLock_NoExclusion(c) ==
  /\ call[c].pc = "w_lock"
  /\ writerLock' = [writerLock EXCEPT ![call[c].sess] = c]
  /\ lockLog' = [lockLog EXCEPT ![call[c].sess] =
                   Append(@, [bytes |-> call[c].data, n |-> 0, ok |-> FALSE])]
  /\ call' = [call EXCEPT ![c] = Frame("w_write", "write", call[c].sess,
                                       call[c].data, Len(lockLog[call[c].sess]) + 1)]
  /\ UNCHANGED << sessions, nextSlot, child, exitCode, kills, ptySize,
                  delivered, pump, lateOutput, watcher, wcode, exitEvents, ret,
                  listed, calls >>
  /\ UNCHANGED nonPtyVars

\* session.writer.lock()
PtyWriteLock(c) ==
  /\ call[c].pc = "w_lock"
  /\ writerLock[call[c].sess] = NoOwner
  /\ writerLock' = [writerLock EXCEPT ![call[c].sess] = c]
  /\ lockLog' = [lockLog EXCEPT ![call[c].sess] =
                   Append(@, [bytes |-> call[c].data, n |-> 0, ok |-> FALSE])]
  /\ call' = [call EXCEPT ![c] = Frame("w_write", "write", call[c].sess,
                                       call[c].data, Len(lockLog[call[c].sess]) + 1)]
  /\ UNCHANGED << sessions, nextSlot, child, exitCode, kills, ptySize,
                  delivered, pump, lateOutput, watcher, wcode, exitEvents, ret,
                  listed, calls >>
  /\ UNCHANGED nonPtyVars

\* bytes of the payload the caller has written so far
Sent(c) == lockLog[call[c].sess][call[c].idx].n

\* one write of write_all's loop: the next byte reaches the process
PtyWriteByte(c) ==
  /\ call[c].pc = "w_write"
  /\ Sent(c) < Len(call[c].data)
  /\ delivered' = [delivered EXCEPT ![call[c].sess] =
                     Append(@, call[c].data[Sent(c) + 1])]
  /\ lockLog' = [lockLog EXCEPT ![call[c].sess][call[c].idx].n = @ + 1]
  /\ UNCHANGED << sessions, nextSlot, child, exitCode, kills, ptySize,
                  writerLock, pump, lateOutput, watcher, wcode, exitEvents,
                  call, ret, listed, calls >>
  /\ UNCHANGED nonPtyVars

\* write_all fails on one of its writes: Err is returned, the guard dropped
PtyWriteFail(c) ==
  /\ call[c].pc = "w_write"
  /\ Sent(c) < Len(call[c].data)
  /\ writerLock' = [writerLock EXCEPT ![call[c].sess] = NoOwner]
  /\ Return(c, "write", "write_err")
  /\ UNCHANGED << sessions, nextSlot, child, exitCode, kills, ptySize,
                  delivered, lockLog, pump, lateOutput, watcher, wcode,
                  exitEvents, listed, calls >>
  /\ UNCHANGED nonPtyVars

\* write_all is through: writer.flush().ok(), Ok(()), the guard dropped.
\* flushed tells whether flush returned Ok or Err; .ok() drops the result
PtyWriteFlush(c, flushed) ==
  /\ call[c].pc = "w_write"
  /\ Sent(c) = Len(call[c].data)
  /\ writerLock' = [writerLock EXCEPT ![call[c].sess] = NoOwner]
  /\ lockLog' = [lockLog EXCEPT ![call[c].sess][call[c].idx].ok = TRUE]
  /\ Return(c, "write", "ok")
  /\ UNCHANGED << sessions, nextSlot, child, exitCode, kills, ptySize,
                  delivered, pump, lateOutput, watcher, wcode, exitEvents,
                  listed, calls >>
  /\ UNCHANGED nonPtyVars

\* ------------------------------------------------------------ pty_resize
PtyResizeLookup(c, id, sz) ==
  /\ CanInvoke(c)
  /\ calls' = calls + 1
  /\ UNCHANGED listed
  /\ IF ParseUuid(id) = None THEN Return(c, "resize", "parse_err")
     ELSE IF Lookup(id) = 0 THEN Return(c, "resize", "ok")
     ELSE Goto(c, "r_apply", "resize", Lookup(id), sz)
  /\ UNCHANGED << sessions, nextSlot, child, exitCode, kills, ptySize,
                  writerLock, delivered, lockLog, pump, lateOutput, watcher,
                  wcode, exitEvents >>
  /\ UNCHANGED nonPtyVars

\* mutant: a failed resize retires the session
PtyResizeApply_DropsOnError(c, applied) ==
  /\ call[c].pc = "r_apply"
  /\ IF applied
       THEN /\ ptySize' = [ptySize EXCEPT ![call[c].sess] = call[c].data]
            /\ Return(c, "resize", "ok")
            /\ UNCHANGED sessions
       ELSE /\ UNCHANGED ptySize
            /\ sessions' = MapRemove(sessions, call[c].sess)
            /\ Return(c, "resize", "resize_err")
  /\ UNCHANGED << nextSlot, child, exitCode, kills, writerLock, delivered,
                  lockLog, pump, lateOutput, watcher, wcode, exitEvents,
                  listed, calls >>
  /\ UNCHANGED nonPtyVars

\* session.master.lock(), master.resize(..): applied, or an I/O error
PtyResizeApply(c, applied) ==
  /\ call[c].pc = "r_apply"
  /\ IF applied
       THEN /\ ptySize' = [ptySize EXCEPT ![call[c].sess] = call[c].data]
            /\ Return(c, "resize", "ok")
       ELSE /\ UNCHANGED ptySize
            /\ Return(c, "resize", "resize_err")
  /\ UNCHANGED << sessions, nextSlot, child, exitCode, kills, writerLock,
                  delivered, lockLog, pump, lateOutput, watcher, wcode,
                  exitEvents, listed, calls >>
  /\ UNCHANGED nonPtyVars

\* mutant: kill treats an absent session as write does
PtyKillLookup_FailsWhenAbsent(c, id) ==
  /\ CanInvoke(c)
  /\ calls' = calls + 1
  /\ UNCHANGED listed
  /\ IF ParseUuid(id) = None THEN Return(c, "kill", "parse_err")
     ELSE IF Lookup(id) = 0 THEN Return(c, "kill", "not_found")
     ELSE Goto(c, "k_signal", "kill", Lookup(id), << >>)
  /\ UNCHANGED << sessions, nextSlot, child, exitCode, kills, ptySize,
                  writerLock, delivered, lockLog, pump, lateOutput, watcher,
                  wcode, exitEvents >>
  /\ UNCHANGED nonPtyVars

\* -------------------------------------------------------------- pty_kill
PtyKillLookup(c, id) ==
  /\ CanInvoke(c)
  /\ calls' = calls + 1
  /\ UNCHANGED listed
  /\ IF ParseUuid(id) = None THEN Return(c, "kill", "parse_err")
     ELSE IF Lookup(id) = 0 THEN Return(c, "kill", "ok")
     ELSE Goto(c, "k_signal", "kill", Lookup(id), << >>)
  /\ UNCHANGED << sessions, nextSlot, child, exitCode, kills, ptySize,
                  writerLock, delivered, lockLog, pump, lateOutput, watcher,
                  wcode, exitEvents >>
  /\ UNCHANGED nonPtyVars

\* mutant: kill retires the session itself
PtyKillSignal_Removes(c) ==
  /\ call[c].pc = "k_signal"
  /\ kills' = [kills EXCEPT ![call[c].sess] = @ + 1]
  /\ sessions' = MapRemove(sessions, call[c].sess)
  /\ Return(c, "kill", "ok")
  /\ UNCHANGED << nextSlot, child, exitCode, ptySize, writerLock, delivered,
                  lockLog, pump, lateOutput, watcher, wcode, exitEvents,
                  listed, calls >>
  /\ UNCHANGED nonPtyVars

\* mutant: the result of child.kill() is propagated with ? instead of .ok()
PtyKillSignal_Propagates(c) ==
  /\ call[c].pc = "k_signal"
  /\ kills' = [kills EXCEPT ![call[c].sess] = @ + 1]
  /\ IF child[call[c].sess] = "exited"
       THEN Return(c, "kill", "kill_err")
       ELSE Return(c, "kill", "ok")
  /\ UNCHANGED << sessions, nextSlot, child, exitCode, ptySize, writerLock,
                  delivered, lockLog, pump, lateOutput, watcher, wcode,
                  exitEvents, listed, calls >>
  /\ UNCHANGED nonPtyVars

\* session.child.lock(), child.kill().ok(), Ok(()): the signal is sent (or
\* the call fails on a process that is gone) and its result is dropped
PtyKillSignal(c) ==
  /\ call[c].pc = "k_signal"
  /\ kills' = [kills EXCEPT ![call[c].sess] = @ + 1]
  /\ Return(c, "kill", "ok")
  /\ UNCHANGED << sessions, nextSlot, child, exitCode, ptySize, writerLock,
                  delivered, lockLog, pump, lateOutput, watcher, wcode,
                  exitEvents, listed, calls >>
  /\ UNCHANGED nonPtyVars

\* -------------------------------------------------------------- pty_list
\* sessions.values().map(|s| s.info.clone()).collect(): the snapshot, one
\* entry per value of the map
PtyList(c) ==
  /\ CanInvoke(c)
  /\ calls' = calls + 1
  /\ listed' = sessions
  /\ Return(c, "list", "ok")
  /\ UNCHANGED << sessions, nextSlot, child, exitCode, kills, ptySize,
                  writerLock, delivered, lockLog, pump, lateOutput, watcher,
                  wcode, exitEvents >>
  /\ UNCHANGED nonPtyVars

\* number of entries of a list() result that carry identifier k
CountId(l, k) == Cardinality({x \in DOMAIN l : l[x] = k})

\* ------------------------------------------------------ the child process
\* the shell ends: by itself, or because of a signal
ChildExit(k, code) ==
  /\ child[k] = "running"
  /\ child' = [child EXCEPT ![k] = "exited"]
  /\ exitCode' = [exitCode EXCEPT ![k] = code]
  /\ UNCHANGED << sessions, nextSlot, kills, ptySize, writerLock, delivered,
                  lockLog, pump, lateOutput, watcher, wcode, exitEvents, call,
                  ret, listed, calls >>
  /\ UNCHANGED nonPtyVars

\* ------------------------------------------------------- the output pump
\* reader.read returns n > 0 bytes: one pty_output event
PtyPumpRead(k) ==
  /\ pump[k] = "reading"
  /\ lateOutput' = [lateOutput EXCEPT ![k] = @ \/ exitEvents[k] # << >>]
  /\ UNCHANGED << sessions, nextSlot, child, exitCode, kills, ptySize,
                  writerLock, delivered, lockLog, pump, watcher, wcode,
                  exitEvents, call, ret, listed, calls >>
  /\ UNCHANGED nonPtyVars

\* reader.read returns Ok(0) or Err: the slave side is closed
PtyPumpEof(k) ==
  /\ pump[k] = "reading"
  /\ child[k] = "exited"
  /\ pump' = [pump EXCEPT ![k] = "done"]
  /\ UNCHANGED << sessions, nextSlot, child, exitCode, kills, ptySize,
                  writerLock, delivered, lockLog, lateOutput, watcher, wcode,
                  exitEvents, call, ret, listed, calls >>
  /\ UNCHANGED nonPtyVars

\* ------------------------------------------------------ the exit watcher
\* child.try_wait() of the trait object: Ok(Some(status)) once the process
\* has exited, Ok(None) while it runs, or Err
TryWait(k) ==
  { "err" } \cup (IF child[k] = "exited" THEN { "exited" } ELSE { "running" })

\* mutant: the watcher reports whether the process succeeded, not its code
PtyWatcherPoll_DropsCode(k, r) ==
  /\ watcher[k] = "poll"
  /\ r \in TryWait(k)
  /\ watcher' = [watcher EXCEPT ![k] = IF r = "running" THEN "poll" ELSE "remove"]
  /\ wcode' = [wcode EXCEPT ![k] = IF r = "exited" THEN Some(0) ELSE None]
  /\ UNCHANGED << sessions, nextSlot, child, exitCode, kills, ptySize,
                  writerLock, delivered, lockLog, pump, lateOutput, exitEvents,
                  call, ret, listed, calls >>
  /\ UNCHANGED nonPtyVars

\* mutant: Ok(None) ends the loop as an exit with status 0 does
PtyWatcherPoll_LeavesEarly(k, r) ==
  /\ watcher[k] = "poll"
  /\ r \in TryWait(k)
  /\ watcher' = [watcher EXCEPT ![k] = "remove"]
  /\ wcode' = [wcode EXCEPT ![k] = IF r = "exited" THEN Some(exitCode[k])
                                   ELSE IF r = "running" THEN Some(0) ELSE None]
  /\ UNCHANGED << sessions, nextSlot, child, exitCode, kills, ptySize,
                  writerLock, delivered, lockLog, pump, lateOutput, exitEvents,
                  call, ret, listed, calls >>
  /\ UNCHANGED nonPtyVars

\* one turn of the loop: session.child.lock(), child.try_wait(), the guard
\* dropped; on Ok(None) the thread sleeps 120 ms and polls again
PtyWatcherPoll(k, r) ==
  /\ watcher[k] = "poll"
  /\ r \in TryWait(k)
  /\ watcher' = [watcher EXCEPT ![k] = IF r = "running" THEN "poll" ELSE "remove"]
  /\ wcode' = [wcode EXCEPT ![k] = IF r = "exited" THEN Some(exitCode[k]) ELSE None]
  /\ UNCHANGED << sessions, nextSlot, child, exitCode, kills, ptySize,
                  writerLock, delivered, lockLog, pump, lateOutput, exitEvents,
                  call, ret, listed, calls >>
  /\ UNCHANGED nonPtyVars

\* mutant: the watcher goes on to publish without removing the entry
PtyWatcherRemove_Skipped(k) ==
  /\ watcher[k] = "remove"
  /\ watcher' = [watcher EXCEPT ![k] = "emit"]
  /\ UNCHANGED << sessions, nextSlot, child, exitCode, kills, ptySize,
                  writerLock, delivered, lockLog, pump, lateOutput, wcode,
                  exitEvents, call, ret, listed, calls >>
  /\ UNCHANGED nonPtyVars

\* mutant: after the removal the watcher polls again
PtyWatcherRemove_Repolls(k) ==
  /\ watcher[k] = "remove"
  /\ sessions' = MapRemove(sessions, k)
  /\ watcher' = [watcher EXCEPT ![k] = "poll"]
  /\ UNCHANGED << nextSlot, child, exitCode, kills, ptySize, writerLock,
                  delivered, lockLog, pump, lateOutput, wcode, exitEvents, call,
                  ret, listed, calls >>
  /\ UNCHANGED nonPtyVars

\* sessions.remove(&id) under the registry lock
PtyWatcherRemove(k) ==
  /\ watcher[k] = "remove"
  /\ sessions' = MapRemove(sessions, k)
  /\ watcher' = [watcher EXCEPT ![k] = "emit"]
  /\ UNCHANGED << nextSlot, child, exitCode, kills, ptySize, writerLock,
                  delivered, lockLog, pump, lateOutput, wcode, exitEvents, call,
                  ret, listed, calls >>
  /\ UNCHANGED nonPtyVars

\* emit_all("pty_exit", { session_id, exit_code }); the thread ends
PtyWatcherEmit(k) ==
  /\ watcher[k] = "emit"
  /\ exitEvents' = [exitEvents EXCEPT ![k] = Append(@, wcode[k])]
  /\ watcher' = [watcher EXCEPT ![k] = "done"]
  /\ UNCHANGED << sessions, nextSlot, child, exitCode, kills, ptySize,
                  writerLock, delivered, lockLog, pump, lateOutput, wcode, call,
                  ret, listed, calls >>
  /\ UNCHANGED nonPtyVars

\* ------------------------------------- the handlers and the watcher, with
\* every lock() and every drop of a guard as a step of its own
\* the owner a watcher thread is recorded as in a lock
WatcherId(k) == Cardinality(Callers) + k

\* the handler of caller c goes on at p with its locals kept
At(c, p) ==
  /\ call' = [call EXCEPT ![c].pc = p]
  /\ UNCHANGED ret

\* pty_create up to the Arc::new(PtySession {..}): openpty, spawn_command,
\* try_clone_reader, take_writer and Uuid::new_v4, no lock held
PtyCreateBuild(c, outcome) ==
  /\ CanInvoke(c)
  /\ calls' = calls + 1
  /\ IF outcome = "ok"
       THEN /\ nextSlot < MaxSessions
            /\ nextSlot' = nextSlot + 1
            /\ child' = [child EXCEPT ![nextSlot + 1] = "running"]
            /\ Goto(c, "s_lock", "create", nextSlot + 1, << >>)
       ELSE /\ Return(c, "create", "spawn_err")
            /\ UNCHANGED << nextSlot, child >>
  /\ UNCHANGED << sessions, exitCode, kills, ptySize, writerLock, delivered,
                  lockLog, pump, lateOutput, watcher, wcode, exitEvents,
                  listed, sessionsLock, masterLock, childLock >>
  /\ UNCHANGED << jobVars, srvVars, arcVars >>

\* Uuid::parse_str of write, resize and kill; list has nothing to parse
PtyCallParse(c, o, id, d) ==
  /\ CanInvoke(c)
  /\ calls' = calls + 1
  /\ IF o # "list" /\ ParseUuid(id) = None THEN Return(c, o, "parse_err")
     ELSE Goto(c, "s_lock", o, IF o = "list" THEN 0 ELSE ParseUuid(id)[1], d)
  /\ UNCHANGED << sessions, nextSlot, child, exitCode, kills, ptySize,
                  writerLock, delivered, lockLog, pump, lateOutput, watcher,
                  wcode, exitEvents, listed, sessionsLock, masterLock,
                  childLock >>
  /\ UNCHANGED << jobVars, srvVars, arcVars >>


\* state.sessions.lock()
SessionsLock(c) ==
  /\ call[c].pc = "s_lock"
  /\ sessionsLock = NoOwner
  /\ sessionsLock' = c
  /\ At(c, "s_op")
  /\ UNCHANGED << sessions, nextSlot, child, exitCode, kills, ptySize,
                  writerLock, delivered, lockLog, pump, lateOutput, watcher,
                  wcode, exitEvents, listed, calls, masterLock, childLock >>
  /\ UNCHANGED << jobVars, srvVars, arcVars >>

\* sessions.insert(id, session.clone()) and the end of the block
SessionsInsert(c) ==
  /\ call[c].pc = "s_op"
  /\ call[c].op = "create"
  /\ sessions' = MapInsert(sessions, call[c].sess, call[c].sess)
  /\ sessionsLock' = NoOwner
  /\ At(c, "c_launch")
  /\ UNCHANGED << nextSlot, child, exitCode, kills, ptySize, writerLock,
                  delivered, lockLog, pump, lateOutput, watcher, wcode,
                  exitEvents, listed, calls, masterLock, childLock >>
  /\ UNCHANGED << jobVars, srvVars, arcVars >>

\* mutant: the guard of the registry lives on after the lookup
SessionsGet_KeepsLock(c) ==
  /\ call[c].pc = "s_op"
  /\ call[c].op \in { "write", "resize", "kill" }
  /\ sessionsLock' = sessionsLock
  /\ IF MapGet(sessions, call[c].sess) = 0
       THEN Return(c, call[c].op, IF call[c].op = "write" THEN "not_found" ELSE "ok")
       ELSE At(c, CASE call[c].op = "write" -> "w_lock"
                    [] call[c].op = "resize" -> "m_lock"
                    [] call[c].op = "kill" -> "ch_lock")
  /\ UNCHANGED << sessions, nextSlot, child, exitCode, kills, ptySize,
                  writerLock, delivered, lockLog, pump, lateOutput, watcher,
                  wcode, exitEvents, listed, calls, masterLock, childLock >>
  /\ UNCHANGED << jobVars, srvVars, arcVars >>

\* sessions.get(&id).cloned() and the end of the block: the guard is
\* dropped, then the Option decides how the handler goes on
SessionsGet(c) ==
  /\ call[c].pc = "s_op"
  /\ call[c].op \in { "write", "resize", "kill" }
  /\ sessionsLock' = NoOwner
  /\ IF MapGet(sessions, call[c].sess) = 0
       THEN Return(c, call[c].op, IF call[c].op = "write" THEN "not_found" ELSE "ok")
       ELSE At(c, CASE call[c].op = "write" -> "w_lock"
                    [] call[c].op = "resize" -> "m_lock"
                    [] call[c].op = "kill" -> "ch_lock")
  /\ UNCHANGED << sessions, nextSlot, child, exitCode, kills, ptySize,
                  writerLock, delivered, lockLog, pump, lateOutput, watcher,
                  wcode, exitEvents, listed, calls, masterLock, childLock >>
  /\ UNCHANGED << jobVars, srvVars, arcVars >>

\* pty_list: the snapshot of the values, the guard dropped on return
SessionsValues(c) ==
  /\ call[c].pc = "s_op"
  /\ call[c].op = "list"
  /\ listed' = sessions
  /\ sessionsLock' = NoOwner
  /\ Return(c, "list", "ok")
  /\ UNCHANGED << sessions, nextSlot, child, exitCode, kills, ptySize,
                  writerLock, delivered, lockLog, pump, lateOutput, watcher,
                  wcode, exitEvents, calls, masterLock, childLock >>
  /\ UNCHANGED << jobVars, srvVars, arcVars >>

\* session.master.lock()
MasterLock(c) ==
  /\ call[c].pc = "m_lock"
  /\ masterLock[call[c].sess] = NoOwner
  /\ masterLock' = [masterLock EXCEPT ![call[c].sess] = c]
  /\ At(c, "m_resize")
  /\ UNCHANGED << sessions, nextSlot, child, exitCode, kills, ptySize,
                  writerLock, delivered, lockLog, pump, lateOutput, watcher,
                  wcode, exitEvents, listed, calls, sessionsLock, childLock >>
  /\ UNCHANGED << jobVars, srvVars, arcVars >>

\* master.resize(..): applied, or an I/O error; the guard dropped on return
MasterResize(c, applied) ==
  /\ call[c].pc = "m_resize"
  /\ ptySize' = IF applied THEN [ptySize EXCEPT ![call[c].sess] = call[c].data]
                ELSE ptySize
  /\ masterLock' = [masterLock EXCEPT ![call[c].sess] = NoOwner]
  /\ Return(c, "resize", IF applied THEN "ok" ELSE "resize_err")
  /\ UNCHANGED << sessions, nextSlot, child, exitCode, kills, writerLock,
                  delivered, lockLog, pump, lateOutput, watcher, wcode,
                  exitEvents, listed, calls, sessionsLock, childLock >>
  /\ UNCHANGED << jobVars, srvVars, arcVars >>

\* mutant: kill reaches for the child without waiting for its lock
ChildLock_NoExclusion(c) ==
  /\ call[c].pc = "ch_lock"
  /\ childLock' = [childLock EXCEPT ![call[c].sess] = c]
  /\ At(c, "ch_kill")
  /\ UNCHANGED << sessions, nextSlot, child, exitCode, kills, ptySize,
                  writerLock, delivered, lockLog, pump, lateOutput, watcher,
                  wcode, exitEvents, listed, calls, sessionsLock,
                  masterLock >>
  /\ UNCHANGED << jobVars, srvVars, arcVars >>

\* session.child.lock() of pty_kill
ChildLock(c) ==
  /\ call[c].pc = "ch_lock"
  /\ childLock[call[c].sess] = NoOwner
  /\ childLock' = [childLock EXCEPT ![call[c].sess] = c]
  /\ At(c, "ch_kill")
  /\ UNCHANGED << sessions, nextSlot, child, exitCode, kills, ptySize,
                  writerLock, delivered, lockLog, pump, lateOutput, watcher,
                  wcode, exitEvents, listed, calls, sessionsLock,
                  masterLock >>
  /\ UNCHANGED << jobVars, srvVars, arcVars >>

\* child.kill().ok(), Ok(()): the guard dropped on return
ChildKill(c) ==
  /\ call[c].pc = "ch_kill"
  /\ kills' = [kills EXCEPT ![call[c].sess] = @ + 1]
  /\ childLock' = [childLock EXCEPT ![call[c].sess] = NoOwner]
  /\ Return(c, "kill", "ok")
  /\ UNCHANGED << sessions, nextSlot, child, exitCode, ptySize, writerLock,
                  delivered, lockLog, pump, lateOutput, watcher, wcode,
                  exitEvents, listed, calls, sessionsLock, masterLock >>
  /\ UNCHANGED << jobVars, srvVars, arcVars >>

\* session.child.lock() of the watcher's loop
WatcherChildLock(k) ==
  /\ watcher[k] = "poll"
  /\ childLock[k] = NoOwner
  /\ childLock' = [childLock EXCEPT ![k] = WatcherId(k)]
  /\ watcher' = [watcher EXCEPT ![k] = "try_wait"]
  /\ UNCHANGED << sessions, nextSlot, child, exitCode, kills, ptySize,
                  writerLock, delivered, lockLog, pump, lateOutput, wcode,
                  exitEvents, call, ret, listed, calls, sessionsLock,
                  masterLock >>
  /\ UNCHANGED << jobVars, srvVars, arcVars >>


\* child.try_wait() and the end of the block: the guard is dropped, then
\* the loop is left with the code, or the thread goes to sleep
WatcherTryWait(k, r) ==
  /\ watcher[k] = "try_wait"
  /\ r \in TryWait(k)
  /\ childLock' = [childLock EXCEPT ![k] = NoOwner]
  /\ watcher' = [watcher EXCEPT ![k] = IF r = "running" THEN "sleep" ELSE "remove"]
  /\ wcode' = [wcode EXCEPT ![k] = IF r = "exited" THEN Some(exitCode[k]) ELSE None]
  /\ UNCHANGED << sessions, nextSlot, child, exitCode, kills, ptySize,
                  writerLock, delivered, lockLog, pump, lateOutput,
                  exitEvents, call, ret, listed, calls, sessionsLock,
                  masterLock >>
  /\ UNCHANGED << jobVars, srvVars, arcVars >>

\* thread::sleep(Duration::from_millis(120)) is over
WatcherSleep(k) ==
  /\ watcher[k] = "sleep"
  /\ watcher' = [watcher EXCEPT ![k] = "poll"]
  /\ UNCHANGED << sessions, nextSlot, child, exitCode, kills, ptySize,
                  writerLock, delivered, lockLog, pump, lateOutput, wcode,
                  exitEvents, call, ret, listed, calls, sessionsLock,
                  masterLock, childLock >>
  /\ UNCHANGED << jobVars, srvVars, arcVars >>

\* state_for_exit.sessions.lock()
WatcherSessionsLock(k) ==
  /\ watcher[k] = "remove"
  /\ sessionsLock = NoOwner
  /\ sessionsLock' = WatcherId(k)
  /\ watcher' = [watcher EXCEPT ![k] = "removing"]
  /\ UNCHANGED << sessions, nextSlot, child, exitCode, kills, ptySize,
                  writerLock, delivered, lockLog, pump, lateOutput, wcode,
                  exitEvents, call, ret, listed, calls, masterLock,
                  childLock >>
  /\ UNCHANGED << jobVars, srvVars, arcVars >>

\* sessions.remove(&id) and the end of the block
WatcherSessionsRemove(k) ==
  /\ watcher[k] = "removing"
  /\ sessions' = MapRemove(sessions, k)
  /\ sessionsLock' = NoOwner
  /\ watcher' = [watcher EXCEPT ![k] = "emit"]
  /\ UNCHANGED << nextSlot, child, exitCode, kills, ptySize, writerLock,
                  delivered, lockLog, pump, lateOutput, wcode, exitEvents,
                  call, ret, listed, calls, masterLock, childLock >>
  /\ UNCHANGED << jobVars, srvVars, arcVars >>

\* ------------------------------------------- the ownership of a session
\* the positions at which a handler has an Arc<PtySession> among its locals:
\* pty_create from Arc::new to the spawn of the watcher, the others from
\* sessions.get(&id).cloned() to their return
HoldingPcs == { "c_launch", "w_lock", "w_write", "r_apply", "k_signal",
                "m_lock", "m_resize", "ch_lock", "ch_kill" }
Holds(c, k) ==
  /\ call[c].sess = k
  /\ \/ call[c].pc \in HoldingPcs
     \/ call[c].pc \in { "s_lock", "s_op" } /\ call[c].op = "create"

\* mutant: the handlers borrow the session of the registry instead of
\* cloning its Arc
Holders_HandlersBorrow(k) ==
  (IF MapGet(sessions, k) # 0 THEN { << "registry" >> } ELSE { })
    \cup (IF watcher[k] \in { "poll", "try_wait", "sleep", "remove", "removing", "emit" }
            THEN { << "watcher" >> } ELSE { })

\* who has an Arc of session k: the registry entry (session.clone() of the
\* insert), the closure of the exit watcher (session is moved into it) until
\* the thread ends, and the handlers
Holders(k) ==
  (IF MapGet(sessions, k) # 0 THEN { << "registry" >> } ELSE { })
    \cup (IF watcher[k] \in { "poll", "try_wait", "sleep", "remove", "removing", "emit" }
            THEN { << "watcher" >> } ELSE { })
    \cup { << "handler", c >> : c \in { d \in Callers : Holds(d, k) } }

\* the last Arc is gone: PtySession is dropped, and with it the master, the
\* writer and the child handle
SessionDrop(k) ==
  /\ child[k] # "none"
  /\ ~released[k]
  /\ Holders(k) = { }
  /\ released' = [released EXCEPT ![k] = TRUE]
  /\ UNCHANGED << ptyVars, jobVars, srvVars, lockVars >>

\* ------------------------------------------------------------- job_start
\* mutant: the terminal pair is allocated and the command spawned before the
\* run directory and the metadata record are written
JobStartOrder_SpawnFirst == << "openpty", "spawn", "mkdir", "meta", "reader", "launch" >>

\* the fallible steps of job_start in program order: the two create_dir_all,
\* fs::write of run_meta.json, openpty, spawn_command, try_clone_reader, and
\* the two thread::spawn with the return of JobInfo
JobStartOrder == << "mkdir", "meta", "openpty", "spawn", "reader", "launch" >>

\* job_start is invoked: job_id, now_ms, slug and run_id are computed
JobStartCall(j) ==
  /\ j = nextJob + 1
  /\ nextJob' = j
  /\ jpc' = [jpc EXCEPT ![j] = 1]
  /\ UNCHANGED << jret, runDir, runMeta, jpty, jchild, jexit, jpump, logOpen,
                  chunksRead, termLog, jobOutput, jwatcher, jwcode, jobResult,
                  jobExit >>
  /\ UNCHANGED nonJobVars

\* the call fails with r: map_err(|e| e.to_string())?
JobStartFail(j, r) ==
  /\ jpc' = [jpc EXCEPT ![j] = 0]
  /\ jret' = [jret EXCEPT ![j] = r]

\* mutant: the call joins the process before it returns
JobStartStep_WaitsForExit(j, done) ==
  /\ jpc[j] \in 1..Len(JobStartOrder)
  /\ LET step == JobStartOrder[jpc[j]]
         Advance == /\ jpc' = [jpc EXCEPT ![j] = @ + 1]
                    /\ UNCHANGED jret
     IN CASE step = "mkdir" ->
               /\ IF done THEN runDir' = [runDir EXCEPT ![j] = TRUE] /\ Advance
                  ELSE UNCHANGED runDir /\ JobStartFail(j, "fs_err")
               /\ UNCHANGED << runMeta, jpty, jchild, jpump, jwatcher >>
          [] step = "meta" ->
               /\ IF done THEN runMeta' = [runMeta EXCEPT ![j] = TRUE] /\ Advance
                  ELSE UNCHANGED runMeta /\ JobStartFail(j, "fs_err")
               /\ UNCHANGED << runDir, jpty, jchild, jpump, jwatcher >>
          [] step = "openpty" ->
               /\ IF done THEN jpty' = [jpty EXCEPT ![j] = TRUE] /\ Advance
                  ELSE UNCHANGED jpty /\ JobStartFail(j, "spawn_err")
               /\ UNCHANGED << runDir, runMeta, jchild, jpump, jwatcher >>
          [] step = "spawn" ->
               /\ IF done THEN jchild' = [jchild EXCEPT ![j] = "running"] /\ Advance
                  ELSE UNCHANGED jchild /\ JobStartFail(j, "spawn_err")
               /\ UNCHANGED << runDir, runMeta, jpty, jpump, jwatcher >>
          [] step = "reader" ->
               /\ IF done THEN Advance ELSE JobStartFail(j, "spawn_err")
               /\ UNCHANGED << runDir, runMeta, jpty, jchild, jpump, jwatcher >>
          [] step = "launch" ->
               /\ done /\ jchild[j] = "exited"
               /\ jpump' = [jpump EXCEPT ![j] = "start"]
               /\ jwatcher' = [jwatcher EXCEPT ![j] = "poll"]
               /\ JobStartFail(j, "ok")
               /\ UNCHANGED << runDir, runMeta, jpty, jchild >>
  /\ UNCHANGED << nextJob, jexit, logOpen, chunksRead, termLog, jobOutput,
                  jwcode, jobResult, jobExit >>
  /\ UNCHANGED nonJobVars

\* the next step of the call succeeds (done) or fails
JobStartStep(j, done) ==
  /\ jpc[j] \in 1..Len(JobStartOrder)
  /\ LET step == JobStartOrder[jpc[j]]
         Advance == /\ jpc' = [jpc EXCEPT ![j] = @ + 1]
                    /\ UNCHANGED jret
     IN CASE step = "mkdir" ->
               /\ IF done THEN runDir' = [runDir EXCEPT ![j] = TRUE] /\ Advance
                  ELSE UNCHANGED runDir /\ JobStartFail(j, "fs_err")
               /\ UNCHANGED << runMeta, jpty, jchild, jpump, jwatcher >>
          [] step = "meta" ->
               /\ IF done THEN runMeta' = [runMeta EXCEPT ![j] = TRUE] /\ Advance
                  ELSE UNCHANGED runMeta /\ JobStartFail(j, "fs_err")
               /\ UNCHANGED << runDir, jpty, jchild, jpump, jwatcher >>
          [] step = "openpty" ->
               /\ IF done THEN jpty' = [jpty EXCEPT ![j] = TRUE] /\ Advance
                  ELSE UNCHANGED jpty /\ JobStartFail(j, "spawn_err")
               /\ UNCHANGED << runDir, runMeta, jchild, jpump, jwatcher >>
          [] step = "spawn" ->
               /\ IF done THEN jchild' = [jchild EXCEPT ![j] = "running"] /\ Advance
                  ELSE UNCHANGED jchild /\ JobStartFail(j, "spawn_err")
               /\ UNCHANGED << runDir, runMeta, jpty, jpump, jwatcher >>
          [] step = "reader" ->
               /\ IF done THEN Advance ELSE JobStartFail(j, "spawn_err")
               /\ UNCHANGED << runDir, runMeta, jpty, jchild, jpump, jwatcher >>
          [] step = "launch" ->
               /\ done
               /\ jpump' = [jpump EXCEPT ![j] = "start"]
               /\ jwatcher' = [jwatcher EXCEPT ![j] = "poll"]
               /\ JobStartFail(j, "ok")
               /\ UNCHANGED << runDir, runMeta, jpty, jchild >>
  /\ UNCHANGED << nextJob, jexit, logOpen, chunksRead, termLog, jobOutput,
                  jwcode, jobResult, jobExit >>
  /\ UNCHANGED nonJobVars

\* the command ends
JobChildExit(j, code) ==
  /\ jchild[j] = "running"
  /\ jchild' = [jchild EXCEPT ![j] = "exited"]
  /\ jexit' = [jexit EXCEPT ![j] = code]
  /\ UNCHANGED << nextJob, jpc, jret, runDir, runMeta, jpty, jpump, logOpen,
                  chunksRead, termLog, jobOutput, jwatcher, jwcode, jobResult,
                  jobExit >>
  /\ UNCHANGED nonJobVars

\* ---------------------------------------------- the output pump of a job
\* OpenOptions::new().create(true).append(true).open(..).ok()
JobPumpOpen(j, opened) ==
  /\ jpump[j] = "start"
  /\ logOpen' = [logOpen EXCEPT ![j] = opened]
  /\ jpump' = [jpump EXCEPT ![j] = "reading"]
  /\ UNCHANGED << nextJob, jpc, jret, runDir, runMeta, jpty, jchild, jexit,
                  chunksRead, termLog, jobOutput, jwatcher, jwcode, jobResult,
                  jobExit >>
  /\ UNCHANGED nonJobVars

\* mutant: the pump reads on after the stream was closed
JobPumpRead_AfterEof(j) ==
  /\ jpump[j] \in { "reading", "done" }
  /\ chunksRead[j] < MaxChunks
  /\ chunksRead' = [chunksRead EXCEPT ![j] = @ + 1]
  /\ jpump' = [jpump EXCEPT ![j] = "append"]
  /\ UNCHANGED << nextJob, jpc, jret, runDir, runMeta, jpty, jchild, jexit,
                  logOpen, termLog, jobOutput, jwatcher, jwcode, jobResult,
                  jobExit >>
  /\ UNCHANGED nonJobVars

\* reader.read returns n > 0 bytes: the next chunk
JobPumpRead(j) ==
  /\ jpump[j] = "reading"
  /\ chunksRead[j] < MaxChunks
  /\ chunksRead' = [chunksRead EXCEPT ![j] = @ + 1]
  /\ jpump' = [jpump EXCEPT ![j] = "append"]
  /\ UNCHANGED << nextJob, jpc, jret, runDir, runMeta, jpty, jchild, jexit,
                  logOpen, termLog, jobOutput, jwatcher, jwcode, jobResult,
                  jobExit >>
  /\ UNCHANGED nonJobVars

\* mutant: the append is retried, so a chunk can reach terminal.log twice
JobPumpAppend_Twice(j, written) ==
  /\ jpump[j] = "append"
  /\ termLog' = [termLog EXCEPT ![j] =
                   IF logOpen[j]
                     THEN IF written THEN Append(@, chunksRead[j])
                          ELSE Append(Append(@, chunksRead[j]), chunksRead[j])
                     ELSE @]
  /\ jpump' = [jpump EXCEPT ![j] = "emit"]
  /\ UNCHANGED << nextJob, jpc, jret, runDir, runMeta, jpty, jchild, jexit,
                  logOpen, chunksRead, jobOutput, jwatcher, jwcode, jobResult,
                  jobExit >>
  /\ UNCHANGED nonJobVars

\* if let Some(f) = &mut log_file { let _ = f.write_all(..); let _ = f.flush(); }
JobPumpAppend(j, written) ==
  /\ jpump[j] = "append"
  /\ termLog' = [termLog EXCEPT ![j] =
                   IF logOpen[j] /\ written THEN Append(@, chunksRead[j]) ELSE @]
  /\ jpump' = [jpump EXCEPT ![j] = "emit"]
  /\ UNCHANGED << nextJob, jpc, jret, runDir, runMeta, jpty, jchild, jexit,
                  logOpen, chunksRead, jobOutput, jwatcher, jwcode, jobResult,
                  jobExit >>
  /\ UNCHANGED nonJobVars

\* emit_all("job_output", { job_id, run_id, data: chunk })
JobPumpEmit(j) ==
  /\ jpump[j] = "emit"
  /\ jobOutput' = [jobOutput EXCEPT ![j] = Append(@, chunksRead[j])]
  /\ jpump' = [jpump EXCEPT ![j] = "reading"]
  /\ UNCHANGED << nextJob, jpc, jret, runDir, runMeta, jpty, jchild, jexit,
                  logOpen, chunksRead, termLog, jwatcher, jwcode, jobResult,
                  jobExit >>
  /\ UNCHANGED nonJobVars

\* reader.read returns Ok(0) or Err: the slave side is closed
JobPumpEof(j) ==
  /\ jpump[j] = "reading"
  /\ jchild[j] = "exited"
  /\ jpump' = [jpump EXCEPT ![j] = "done"]
  /\ UNCHANGED << nextJob, jpc, jret, runDir, runMeta, jpty, jchild, jexit,
                  logOpen, chunksRead, termLog, jobOutput, jwatcher, jwcode,
                  jobResult, jobExit >>
  /\ UNCHANGED nonJobVars

\* ---------------------------------------------- the exit watcher of a job
\* child.try_wait(): Ok(Some(status)), Ok(None) or Err
JobTryWait(j) ==
  { "err" } \cup (IF jchild[j] = "exited" THEN { "exited" } ELSE { "running" })

\* one turn of the loop; on Ok(None) the thread sleeps 120 ms and polls again
JobWatcherPoll(j, r) ==
  /\ jwatcher[j] = "poll"
  /\ r \in JobTryWait(j)
  /\ jwatcher' = [jwatcher EXCEPT ![j] = IF r = "running" THEN "poll" ELSE "result"]
  /\ jwcode' = [jwcode EXCEPT ![j] = IF r = "exited" THEN Some(jexit[j]) ELSE None]
  /\ UNCHANGED << nextJob, jpc, jret, runDir, runMeta, jpty, jchild, jexit,
                  jpump, logOpen, chunksRead, termLog, jobOutput, jobResult,
                  jobExit >>
  /\ UNCHANGED nonJobVars

\* let _ = fs::write(&result_path, ..)
JobWatcherResult(j, written) ==
  /\ jwatcher[j] = "result"
  /\ jobResult' = [jobResult EXCEPT ![j] = IF written THEN Append(@, jwcode[j]) ELSE @]
  /\ jwatcher' = [jwatcher EXCEPT ![j] = "emit"]
  /\ UNCHANGED << nextJob, jpc, jret, runDir, runMeta, jpty, jchild, jexit,
                  jpump, logOpen, chunksRead, termLog, jobOutput, jwcode,
                  jobExit >>
  /\ UNCHANGED nonJobVars

\* mutant: after publishing, the watcher goes back to polling
JobWatcherEmit_Repolls(j) ==
  /\ jwatcher[j] = "emit"
  /\ jobExit' = [jobExit EXCEPT ![j] = Append(@, jwcode[j])]
  /\ jwatcher' = [jwatcher EXCEPT ![j] = "poll"]
  /\ UNCHANGED << nextJob, jpc, jret, runDir, runMeta, jpty, jchild, jexit,
                  jpump, logOpen, chunksRead, termLog, jobOutput, jwcode,
                  jobResult >>
  /\ UNCHANGED nonJobVars

\* emit_all("job_exit", { job_id, run_id, exit_code }); the thread ends
JobWatcherEmit(j) ==
  /\ jwatcher[j] = "emit"
  /\ jobExit' = [jobExit EXCEPT ![j] = Append(@, jwcode[j])]
  /\ jwatcher' = [jwatcher EXCEPT ![j] = "done"]
  /\ UNCHANGED << nextJob, jpc, jret, runDir, runMeta, jpty, jchild, jexit,
                  jpump, logOpen, chunksRead, termLog, jobOutput, jwcode,
                  jobResult >>
  /\ UNCHANGED nonJobVars

\* ------------------------------------------------------- the file server
\* set_server_roots: each root is set to Some(path) or to None
SetServerRoots(viewer, project) ==
  /\ roots' = [viewer_dir |-> IF viewer THEN Some(ViewerDir) ELSE None,
               runs_dir |-> IF project THEN Some(RunsDir) ELSE None]
  /\ roots' # roots
  /\ UNCHANGED << request, response >>
  /\ UNCHANGED nonSrvVars

\* server.incoming_requests() yields the next request
ServerReceive ==
  /\ request = NoRequest
  /\ \E url \in Urls : request' = url
  /\ UNCHANGED << roots, response >>
  /\ UNCHANGED nonSrvVars

\* the body of the loop for one request: the route, safe_join, is_file,
\* the method and fs::read decide the response
ServerHandle(is_file, method, read_ok) ==
  /\ request # NoRequest
  /\ response = NoResponse
  /\ LET r == Route(request)
         resolved == safe_join(r.root[1], r.path)
     IN response' =
          IF r.mount = "none" \/ r.root = None THEN Respond(404, r.root, << >>, "none")
          ELSE IF ~resolved.ok THEN Respond(403, r.root, << >>, "none")
          ELSE IF ~is_file THEN Respond(404, r.root, resolved.path, "is_file")
          ELSE IF method = "HEAD" THEN Respond(200, r.root, resolved.path, "is_file")
          ELSE IF ~read_ok THEN Respond(500, r.root, resolved.path, "read")
          ELSE Respond(200, r.root, resolved.path, "read")
  /\ UNCHANGED << roots, request >>
  /\ UNCHANGED nonSrvVars

\* request.respond(response); the loop goes on to the next request
ServerRespond ==
  /\ response # NoResponse
  /\ request' = NoRequest
  /\ response' = NoResponse
  /\ UNCHANGED roots
  /\ UNCHANGED nonSrvVars

\* ---------------------------------------------------------- specification
CreateOutcomes == { "openpty_err", "spawn_err", "reader_err", "writer_err", "ok" }

\* The interactive sessions: every command handler, called concurrently, with
\* the child processes and the exit watchers. Writes carry one byte and the
\* children end with status 0 (WriteSpec has the longer payloads, FairSpec
\* the other exit codes).
Next ==
  \/ \E c \in Callers, o \in CreateOutcomes : PtyCreateSetup(c, o)
  \/ \E c \in Callers : PtyCreateLaunch(c)
  \/ \E c \in Callers, id \in IdStrings, n \in {1} : PtyWriteLookup(c, id, n)
  \/ \E c \in Callers : PtyWriteLock(c)
  \/ \E c \in Callers : PtyWriteByte(c)
  \/ \E c \in Callers : PtyWriteFail(c)
  \/ \E c \in Callers, b \in BOOLEAN : PtyWriteFlush(c, b)
  \/ \E c \in Callers, id \in IdStrings, sz \in Sizes : PtyResizeLookup(c, id, sz)
  \/ \E c \in Callers, b \in BOOLEAN : PtyResizeApply(c, b)
  \/ \E c \in Callers, id \in IdStrings : PtyKillLookup(c, id)
  \/ \E c \in Callers : PtyKillSignal(c)
  \/ \E c \in Callers : PtyList(c)
  \/ \E k \in Slots : ChildExit(k, 0)
  \/ \E k \in Slots, r \in { "err", "exited", "running" } : PtyWatcherPoll(k, r)
  \/ \E k \in Slots : PtyWatcherRemove(k)
  \/ \E k \in Slots : PtyWatcherEmit(k)

Spec == Init /\ [][Next]_vars

\* The sessions with concurrent writers of payloads of every length: create
\* and write, the child processes and the exit watchers.
WriteNext ==
  \/ \E c \in Callers, o \in CreateOutcomes : PtyCreateSetup(c, o)
  \/ \E c \in Callers : PtyCreateLaunch(c)
  \/ \E c \in Callers, id \in IdStrings, n \in 1..MaxLen : PtyWriteLookup(c, id, n)
  \/ \E c \in Callers : PtyWriteLock(c)
  \/ \E c \in Callers : PtyWriteByte(c)
  \/ \E c \in Callers : PtyWriteFail(c)
  \/ \E c \in Callers, b \in BOOLEAN : PtyWriteFlush(c, b)
  \/ \E k \in Slots : ChildExit(k, 0)
  \/ \E k \in Slots, r \in { "err", "exited", "running" } : PtyWatcherPoll(k, r)
  \/ \E k \in Slots : PtyWatcherRemove(k)
  \/ \E k \in Slots : PtyWatcherEmit(k)

WriteSpec == Init /\ [][WriteNext]_vars

\* The jobs: job_start calls, the commands, the pumps and the watchers.
JobNext ==
  \/ \E j \in Jobs : JobStartCall(j)
  \/ \E j \in Jobs, b \in BOOLEAN : JobStartStep(j, b)
  \/ \E j \in Jobs : JobChildExit(j, 3)
  \/ \E j \in Jobs, b \in BOOLEAN : JobPumpOpen(j, b)
  \/ \E j \in Jobs : JobPumpRead(j)
  \/ \E j \in Jobs, b \in BOOLEAN : JobPumpAppend(j, b)
  \/ \E j \in Jobs : JobPumpEmit(j)
  \/ \E j \in Jobs : JobPumpEof(j)
  \/ \E j \in Jobs, r \in { "err", "exited", "running" } : JobWatcherPoll(j, r)
  \/ \E j \in Jobs, b \in BOOLEAN : JobWatcherResult(j, b)
  \/ \E j \in Jobs : JobWatcherEmit(j)

JobSpec == Init /\ [][JobNext]_vars

\* The life of the sessions under fair scheduling: create and list, the
\* child processes and the exit watchers.
LifeNext ==
  \/ \E c \in Callers, o \in CreateOutcomes : PtyCreateSetup(c, o)
  \/ \E c \in Callers : PtyCreateLaunch(c)
  \/ \E c \in Callers : PtyList(c)
  \/ \E k \in Slots, code \in ExitCodes : ChildExit(k, code)
  \/ \E k \in Slots, r \in { "err", "exited", "running" } : PtyWatcherPoll(k, r)
  \/ \E k \in Slots : PtyWatcherRemove(k)
  \/ \E k \in Slots : PtyWatcherEmit(k)

\* A thread that can take its next step takes it: pty_create goes on to
\* spawn the threads, and a watcher thread polls every 120 ms, takes the
\* registry lock (held by others for one map operation only) and publishes.
LifeFairness ==
  /\ \A c \in Callers : WF_vars(PtyCreateLaunch(c))
  /\ \A k \in Slots :
       /\ WF_vars(\E r \in { "err", "exited", "running" } : PtyWatcherPoll(k, r))
       /\ WF_vars(PtyWatcherRemove(k))
       /\ WF_vars(PtyWatcherEmit(k))

FairSpec == Init /\ [][LifeNext]_vars /\ LifeFairness

\* The session handlers and the exit watchers with their locks: every
\* acquisition and every release is a step, so that what a thread holds
\* while another one waits can be seen.  A poll that fails takes the same
\* locks as one that finds the process gone, and an identifier that does
\* not parse and a shell that cannot be started end the call before any
\* lock: these are left to Spec and ChildSpec.  What is written does not
\* matter here, so every write has the same payload.
CallerStep(c) ==
  \/ SessionsLock(c)
  \/ SessionsInsert(c)
  \/ SessionsGet(c)
  \/ SessionsValues(c)
  \/ PtyCreateLaunch(c)
  \/ PtyWriteLock(c)
  \/ PtyWriteByte(c)
  \/ PtyWriteFail(c)
  \/ \E b \in BOOLEAN : PtyWriteFlush(c, b)
  \/ MasterLock(c)
  \/ \E b \in BOOLEAN : MasterResize(c, b)
  \/ ChildLock(c)
  \/ ChildKill(c)

WatcherStep(k) ==
  \/ WatcherChildLock(k)
  \/ \E r \in { "exited", "running" } : WatcherTryWait(k, r)
  \/ WatcherSleep(k)
  \/ WatcherSessionsLock(k)
  \/ WatcherSessionsRemove(k)
  \/ PtyWatcherEmit(k)

LockNext ==
  \/ \E c \in Callers : PtyCreateBuild(c, "ok")
  \/ \E c \in Callers, id \in Slots : PtyCallParse(c, "write", id, Payload(1, 1))
  \/ \E c \in Callers, id \in Slots, sz \in Sizes : PtyCallParse(c, "resize", id, sz)
  \/ \E c \in Callers, id \in Slots : PtyCallParse(c, "kill", id, << >>)
  \/ \E c \in Callers : PtyCallParse(c, "list", 0, << >>)
  \/ \E c \in Callers : CallerStep(c)
  \/ \E k \in Slots : ChildExit(k, 0)
  \/ \E k \in Slots : WatcherStep(k)

LockSpec == Init /\ [][LockNext]_vars

\* kill and the exit watcher of a session, which share its child lock
ChildNext ==
  \/ \E c \in Callers : PtyCreateBuild(c, "ok")
  \/ \E c \in Callers, id \in IdStrings : PtyCallParse(c, "kill", id, << >>)
  \/ \E c \in Callers : SessionsLock(c)
  \/ \E c \in Callers : SessionsInsert(c)
  \/ \E c \in Callers : SessionsGet(c)
  \/ \E c \in Callers : PtyCreateLaunch(c)
  \/ \E c \in Callers : ChildLock(c)
  \/ \E c \in Callers : ChildKill(c)
  \/ \E k \in Slots : ChildExit(k, 3)
  \/ \E k \in Slots : WatcherChildLock(k)
  \/ \E k \in Slots, r \in { "err", "exited", "running" } : WatcherTryWait(k, r)
  \/ \E k \in Slots : WatcherSleep(k)
  \/ \E k \in Slots : WatcherSessionsLock(k)
  \/ \E k \in Slots : WatcherSessionsRemove(k)
  \/ \E k \in Slots : PtyWatcherEmit(k)

ChildSpec == Init /\ [][ChildNext]_vars

\* most chunks a pump other than that of job j has read
MaxOver(S) == IF S = {} THEN 0 ELSE CHOOSE y \in S : \A z \in S : z <= y
ChunksOfOthers(j) == MaxOver({ chunksRead[i] : i \in Jobs \ {j} })

\* The two threads of every session and of every job, from their launch to
\* their end: the pump publishes what it reads, the watcher finalizes.  The
\* calls that start them succeed, the log opens and the polls do not fail:
\* a failure there leaves fewer events, in the same order.  The chunks of
\* the bound are shared by the pumps.
EventNext ==
  \/ \E c \in Callers : nextSlot + nextJob < MaxWatched /\ PtyCreateSetup(c, "ok")
  \/ \E c \in Callers : PtyCreateLaunch(c)
  \/ \E k \in Slots : ChildExit(k, 3)
  \/ \E k \in Slots : PtyPumpRead(k)
  \/ \E k \in Slots : PtyPumpEof(k)
  \/ \E k \in Slots, r \in { "exited", "running" } : PtyWatcherPoll(k, r)
  \/ \E k \in Slots : PtyWatcherRemove(k)
  \/ \E k \in Slots : PtyWatcherEmit(k)
  \/ \E j \in Jobs : nextSlot + nextJob < MaxWatched /\ JobStartCall(j)
  \/ \E j \in Jobs : JobStartStep(j, TRUE)
  \/ \E j \in Jobs : JobChildExit(j, 3)
  \/ \E j \in Jobs : JobPumpOpen(j, TRUE)
  \/ \E j \in Jobs : ChunksOfOthers(j) + chunksRead[j] < MaxChunks /\ JobPumpRead(j)
  \/ \E j \in Jobs, b \in BOOLEAN : JobPumpAppend(j, b)
  \/ \E j \in Jobs : JobPumpEmit(j)
  \/ \E j \in Jobs : JobPumpEof(j)
  \/ \E j \in Jobs, r \in { "exited", "running" } : JobWatcherPoll(j, r)
  \/ \E j \in Jobs, b \in BOOLEAN : JobWatcherResult(j, b)
  \/ \E j \in Jobs : JobWatcherEmit(j)

EventSpec == Init /\ [][EventNext]_vars

\* The sessions from their creation to the drop of their handles.
DropNext ==
  \/ \E c \in Callers : PtyCreateSetup(c, "ok")
  \/ \E c \in Callers : PtyCreateLaunch(c)
  \/ \E c \in Callers, id \in Slots : PtyWriteLookup(c, id, 1)
  \/ \E c \in Callers : PtyWriteLock(c)
  \/ \E c \in Callers : PtyWriteByte(c)
  \/ \E c \in Callers : PtyWriteFail(c)
  \/ \E c \in Callers, b \in BOOLEAN : PtyWriteFlush(c, b)
  \/ \E c \in Callers, id \in Slots, sz \in Sizes : PtyResizeLookup(c, id, sz)
  \/ \E c \in Callers, b \in BOOLEAN : PtyResizeApply(c, b)
  \/ \E c \in Callers, id \in Slots : PtyKillLookup(c, id)
  \/ \E c \in Callers : PtyKillSignal(c)
  \/ \E k \in Slots : ChildExit(k, 0)
  \/ \E k \in Slots, r \in { "err", "exited", "running" } : PtyWatcherPoll(k, r)
  \/ \E k \in Slots : PtyWatcherRemove(k)
  \/ \E k \in Slots : PtyWatcherEmit(k)
  \/ \E k \in Slots : SessionDrop(k)

DropSpec == Init /\ [][DropNext]_vars

\* The file server: set_server_roots, and the server thread handling one
\* request after the other.
ServeNext ==
  \/ \E v \in BOOLEAN, p \in BOOLEAN : SetServerRoots(v, p)
  \/ ServerReceive
  \/ \E f \in BOOLEAN, m \in { "GET", "HEAD" }, ok \in BOOLEAN : ServerHandle(f, m, ok)
  \/ ServerRespond

ServeSpec == Init /\ [][ServeNext]_vars

\* The threads that finalize, under fair scheduling: pty_create and job_start
\* calls (MaxWatched of them in all), the child processes, and the exit
\* watchers of sessions and jobs.
WatchNext ==
  \/ \E c \in Callers : nextSlot + nextJob < MaxWatched /\ PtyCreateSetup(c, "ok")
  \/ \E c \in Callers : PtyCreateLaunch(c)
  \/ \E k \in Slots : ChildExit(k, 3)
  \/ \E k \in Slots, r \in { "err", "exited", "running" } : PtyWatcherPoll(k, r)
  \/ \E k \in Slots : PtyWatcherRemove(k)
  \/ \E k \in Slots : PtyWatcherEmit(k)
  \/ \E j \in Jobs : nextSlot + nextJob < MaxWatched /\ JobStartCall(j)
  \/ \E j \in Jobs, b \in BOOLEAN : JobStartStep(j, b)
  \/ \E j \in Jobs : JobChildExit(j, 3)
  \/ \E j \in Jobs, r \in { "err", "exited", "running" } : JobWatcherPoll(j, r)
  \/ \E j \in Jobs, b \in BOOLEAN : JobWatcherResult(j, b)
  \/ \E j \in Jobs : JobWatcherEmit(j)

\* A thread that can take its next step takes it: a handler goes on to its
\* next statement, a watcher polls every 120 ms, takes the registry lock
\* (held by others for one map operation only), writes and publishes.  No
\* process is required to exit.
WatchFairness ==
  /\ \A c \in Callers : WF_vars(PtyCreateLaunch(c))
  /\ \A k \in Slots :
       /\ WF_vars(\E r \in { "err", "exited", "running" } : PtyWatcherPoll(k, r))
       /\ WF_vars(PtyWatcherRemove(k))
       /\ WF_vars(PtyWatcherEmit(k))
  /\ \A j \in Jobs :
       /\ WF_vars(\E b \in BOOLEAN : JobStartStep(j, b))
       /\ WF_vars(\E r \in { "err", "exited", "running" } : JobWatcherPoll(j, r))
       /\ WF_vars(\E b \in BOOLEAN : JobWatcherResult(j, b))
       /\ WF_vars(JobWatcherEmit(j))

WatchSpec == Init /\ [][WatchNext]_vars /\ WatchFairness

\* ------------------------------------------------------------ properties
\* the steps of each command handler
CreateStep == \E c \in Callers :
  (\E o \in CreateOutcomes : PtyCreateSetup(c, o)) \/ PtyCreateLaunch(c)
WriteStep == \E c \in Callers :
  \/ \E id \in IdStrings, n \in 1..MaxLen : PtyWriteLookup(c, id, n)
  \/ PtyWriteLock(c) \/ PtyWriteByte(c) \/ PtyWriteFail(c)
  \/ \E b \in BOOLEAN : PtyWriteFlush(c, b)
ResizeStep == \E c \in Callers :
  \/ \E id \in IdStrings, sz \in Sizes : PtyResizeLookup(c, id, sz)
  \/ \E b \in BOOLEAN : PtyResizeApply(c, b)
KillStep == \E c \in Callers :
  (\E id \in IdStrings : PtyKillLookup(c, id)) \/ PtyKillSignal(c)
ListStep == \E c \in Callers : PtyList(c)

\* a handler returns in this step (ret' is what it returns)
Returns(o) ==
  /\ ret'.op = o
  /\ \/ calls' = calls + 1 /\ call' = call
     \/ \E c \in Callers : call[c].pc # "idle" /\ call'[c].pc = "idle"

\* the watcher of slot k left its loop on a failed poll (exit_code None)
PollFailed(k) == watcher[k] \in { "remove", "emit", "done" } /\ wcode[k] = None

\* what write, resize and kill may act on besides the caller's own frame
Shared == << sessions, nextSlot, child, exitCode, kills, ptySize, writerLock,
             delivered, lockLog, pump, lateOutput, watcher, wcode, exitEvents >>

\* C1: the pty_exit event of a session is published at most once, and in
\* every state in which it has been published the session's identifier is
\* not a key of the registry.
C1_ExitOnceAfterRemoval ==
  \A k \in Slots :
    /\ Len(exitEvents[k]) <= 1
    /\ exitEvents[k] # << >> => k \notin DOMAIN sessions
C1_Witness ==
  \E k \in Slots, j \in Slots :
    exitEvents[k] # << >> /\ j \in DOMAIN sessions

\* C2 as stated (its part that a finite run decides): once the process of a
\* session has exited with code c, a published pty_exit event of the session
\* carries the exit code c.
C2_Original ==
  \A k \in Slots :
    (child[k] = "exited" /\ exitEvents[k] # << >>)
      => exitEvents[k] = << Some(exitCode[k]) >>
\* C2 amended: once the process of a registered session has exited,
\* eventually exactly one pty_exit event of the session is published; the
\* event carries the code the process exited with, or no code when the
\* watcher's poll of the child handle failed; and every list() made after
\* the event omits the session.
C2_ExitReported ==
  /\ \A k \in Slots :
       (k \in DOMAIN sessions /\ child[k] = "exited") ~> (Len(exitEvents[k]) = 1)
  /\ [](\A k \in Slots :
          exitEvents[k] # << >> =>
            /\ Len(exitEvents[k]) = 1
            /\ \/ exitEvents[k][1] = None /\ PollFailed(k)
               \/ exitEvents[k][1] = Some(exitCode[k]) /\ child[k] = "exited")
  /\ [][ListStep =>
          \A k \in Slots : exitEvents[k] # << >> => CountId(listed', k) = 0]_vars
C2_Witness ==
  \E k \in Slots :
    /\ child[k] = "exited" /\ exitCode[k] = 3 /\ exitEvents[k] = << Some(3) >>
    /\ ret = [op |-> "list", val |-> "ok"] /\ listed = sessions
    /\ sessions # << >>

\* C3 as stated: while the process of a session whose create has returned
\* runs and has not been killed, every list() result holds exactly one entry
\* with its identifier.
C3_Original ==
  [][ListStep =>
       \A k \in Slots :
         (watcher[k] # "none" /\ child[k] = "running" /\ kills[k] = 0)
           => CountId(listed', k) = 1]_vars
\* C3 amended: ... as long as, in addition, the watcher's poll of the child
\* handle has not failed.
C3_ListedUntilExitKillOrPollError ==
  [][ListStep =>
       \A k \in Slots :
         (watcher[k] # "none" /\ child[k] = "running" /\ kills[k] = 0
            /\ ~PollFailed(k))
           => CountId(listed', k) = 1]_vars
C3_Witness ==
  \E k \in Slots, j \in Slots :
    /\ k # j /\ CountId(listed, k) = 1 /\ CountId(listed, j) = 0
    /\ child[k] = "running" /\ kills[k] = 0 /\ watcher[k] = "poll"
    /\ watcher[j] = "done" /\ ret = [op |-> "list", val |-> "ok"]

\* the bytes written under the acquisitions of log, in the order of the log
RECURSIVE WrittenInLockOrder(_)
WrittenInLockOrder(log) ==
  IF log = << >> THEN << >>
  ELSE WrittenInLockOrder(SubSeq(log, 1, Len(log) - 1))
         \o SubSeq(log[Len(log)].bytes, 1, log[Len(log)].n)

\* C4: the bytes delivered to a session's process are the bytes of its write
\* calls in the order the calls took the writer lock, the bytes of one call
\* never split by those of another, and a call that returned success has
\* all its bytes delivered.
C4_WritesSerialized ==
  \A k \in Slots :
    /\ delivered[k] = WrittenInLockOrder(lockLog[k])
    /\ \A i \in 1..Len(lockLog[k]) :
         lockLog[k][i].ok => lockLog[k][i].n = Len(lockLog[k][i].bytes)
C4_Witness ==
  \E k \in Slots, c \in Callers, d \in Callers :
    /\ call[c].pc = "w_write" /\ call[c].sess = k /\ Sent(c) = 1
    /\ Len(call[c].data) = MaxLen
    /\ call[d].pc = "w_lock" /\ call[d].sess = k /\ Len(call[d].data) = MaxLen

C6_KillIdempotent ==
  [][/\ \A c \in Callers, id \in Slots :
          PtyKillLookup(c, id) =>
            call'[c].pc = "k_signal" \/ ret' = [op |-> "kill", val |-> "ok"]
     /\ \A c \in Callers :
          call[c].pc = "k_signal" /\ call'[c].pc = "idle"
            => ret' = [op |-> "kill", val |-> "ok"]
     /\ \A k \in Slots : Len(exitEvents'[k]) <= 1]_vars
C6_Witness ==
  \E k \in Slots :
    kills[k] >= 2 /\ Len(exitEvents[k]) = 1 /\ ret = [op |-> "kill", val |-> "ok"]

\* C7: no step of kill, write, resize or list changes the registry; a step
\* that changes it is create's insert of a new key or the removal by the
\* watcher of the removed session.
C7_RegistryFrame ==
  [][/\ (KillStep \/ WriteStep \/ ResizeStep \/ ListStep) => sessions' = sessions
     /\ sessions' # sessions =>
          \/ \E c \in Callers :
               /\ PtyCreateSetup(c, "ok")
               /\ DOMAIN sessions' = DOMAIN sessions \cup { nextSlot + 1 }
               /\ nextSlot + 1 \notin DOMAIN sessions
          \/ \E k \in Slots :
               /\ PtyWatcherRemove(k)
               /\ DOMAIN sessions' = DOMAIN sessions \ { k }]_vars
C7_Witness ==
  \E k \in Slots :
    /\ ret = [op |-> "kill", val |-> "ok"] /\ kills[k] >= 1
    /\ k \in DOMAIN sessions /\ child[k] = "exited"

\* C8: a create that fails leaves the registry as it was and starts neither
\* an output pump nor an exit watcher.
C8_FailedCreate ==
  [][(Returns("create") /\ ret'.val # "ok")
       => sessions' = sessions /\ pump' = pump /\ watcher' = watcher]_vars
C8_Witness ==
  /\ ret = [op |-> "create", val |-> "spawn_err"]
  /\ sessions # << >>
  /\ \A k \in Slots : k \in DOMAIN sessions <=> pump[k] = "reading"

\* C9 (stated by the spec, contradicted by job_start): a job start that fails
\* with a spawn error leaves nothing behind: no run directory, no metadata
\* record, no running process, no pump and no watcher.
C9_NoPartialState ==
  \A j \in Jobs :
    jret[j] = "spawn_err" =>
      /\ ~runDir[j] /\ ~runMeta[j]
      /\ jchild[j] # "running"
      /\ jpump[j] = "none" /\ jwatcher[j] = "none"

\* C10: a job start that fails on the run directory or on the metadata
\* record has allocated no terminal pair and spawned no process; it has no
\* pump and no watcher, and no output or exit event of it is ever published.
C10_FsErrorBeforeSpawn ==
  \A j \in Jobs :
    jret[j] = "fs_err" =>
      /\ ~jpty[j] /\ jchild[j] = "none"
      /\ jpump[j] = "none" /\ jwatcher[j] = "none"
      /\ jobOutput[j] = << >> /\ jobExit[j] = << >>
C10_Witness ==
  \E j \in Jobs : jret[j] = "fs_err" /\ runDir[j] /\ ~runMeta[j]

\* s is a prefix of t
IsPrefix(s, t) == Len(s) <= Len(t) /\ \A i \in 1..Len(s) : s[i] = t[i]

\* the chunks the pump of job j has read so far, in order
ChunksRead(j) == [i \in 1..chunksRead[j] |-> i]

C12_AppendBeforePublish ==
  \A j \in Jobs : \A i \in 1..Len(jobOutput[j]) :
    \E m \in 1..Len(termLog[j]) : termLog[j][m] = jobOutput[j][i]

\* C13 as stated: the result record is written only once the process has
\* exited, and once job_exit is published the record with the exit code of
\* the process is there; there is one job_exit event at most.
C13_Original ==
  \A j \in Jobs :
    /\ Len(jobResult[j]) <= 1 /\ Len(jobExit[j]) <= 1
    /\ jobResult[j] # << >> => jchild[j] = "exited"
    /\ jobExit[j] # << >> => jobResult[j] = << Some(jexit[j]) >>

\* C13: job_result.json is written at most once, after the watcher has left
\* its poll loop and before it publishes; job_exit is published at most
\* once, by the finished watcher; record and event carry the exit code the
\* loop ended with, which is the status of the exited process or absent.
C13_ResultThenExit ==
  \A j \in Jobs :
    /\ Len(jobResult[j]) <= 1 /\ Len(jobExit[j]) <= 1
    /\ jobResult[j] # << >>
         => jwatcher[j] \in { "emit", "done" } /\ jobResult[j] = << jwcode[j] >>
    /\ jobExit[j] # << >>
         => jwatcher[j] = "done" /\ jobExit[j] = << jwcode[j] >>
    /\ jwatcher[j] \in { "result", "emit", "done" } /\ jwcode[j] # None
         => jchild[j] = "exited" /\ jwcode[j] = Some(jexit[j])
C13_Witness ==
  \E j \in Jobs : jobExit[j] = << Some(3) >> /\ jobResult[j] = << Some(3) >>

C19_WatcherFinalizes ==
  /\ \A k \in Slots :
       (\/ watcher[k] = "poll" /\ child[k] = "exited"
        \/ watcher[k] \in { "remove", "emit" })
         ~> (watcher[k] = "done" /\ exitEvents[k] = << wcode[k] >>)
  /\ \A j \in Jobs :
       (\/ jwatcher[j] = "poll" /\ jchild[j] = "exited"
        \/ jwatcher[j] \in { "result", "emit" })
         ~> (jwatcher[j] = "done" /\ jobExit[j] = << jwcode[j] >>)
  /\ [][/\ \A k \in Slots :
             /\ watcher[k] \in { "remove", "emit", "done" } => watcher'[k] # "poll"
             /\ watcher[k] = "done" => watcher'[k] = "done"
        /\ \A j \in Jobs :
             /\ jwatcher[j] \in { "result", "emit", "done" } => jwatcher'[j] # "poll"
             /\ jwatcher[j] = "done" => jwatcher'[j] = "done"]_vars
C19_Witness ==
  /\ \E k \in Slots : watcher[k] = "done" /\ exitEvents[k] = << None >>
                        /\ child[k] = "running"
  /\ \E j \in Jobs : jwatcher[j] = "done" /\ jobExit[j] = << Some(3) >>

\* C15 (stated by the spec, contradicted by pty_write): an I/O failure of a
\* write or a resize on a registered session (writing the bytes, flushing
\* them, applying the geometry) makes the call return the error, and leaves
\* the registry as it was.
C15_IoFailureSurfaced ==
  [][\A c \in Callers :
       /\ PtyWriteFail(c)
            => ret' = [op |-> "write", val |-> "write_err"] /\ sessions' = sessions
       /\ PtyWriteFlush(c, FALSE)
            => ret' = [op |-> "write", val |-> "write_err"] /\ sessions' = sessions
       /\ PtyResizeApply(c, FALSE)
            => ret' = [op |-> "resize", val |-> "resize_err"] /\ sessions' = sessions]_vars

\* C18 as stated: a session that has been registered and is no longer in the
\* registry has a process that has exited.
C18_Original ==
  \A k \in Slots : k <= nextSlot /\ k \notin DOMAIN sessions => child[k] # "running"

\* C18: the entry of a session leaves the registry in a step of that
\* session's own watcher, after its loop ended on an exit or on a failed
\* poll, and never comes back (so it leaves once); a registered session is
\* absent from the registry only if its process has exited or its watcher's
\* poll failed.
C18_RemovedOnceByOwnWatcher ==
  /\ [][\A k \in Slots :
          /\ k \in DOMAIN sessions /\ k \notin DOMAIN sessions'
               => /\ PtyWatcherRemove(k)
                  /\ child[k] = "exited" \/ wcode[k] = None
          /\ k <= nextSlot /\ k \notin DOMAIN sessions
               => k \notin DOMAIN sessions']_vars
  /\ [](\A k \in Slots :
          k <= nextSlot /\ k \notin DOMAIN sessions
            => child[k] = "exited" \/ PollFailed(k))
C18_Witness ==
  /\ 1 \notin DOMAIN sessions /\ child[1] = "exited" /\ watcher[1] = "emit"
  /\ wcode[1] # None /\ 2 \in DOMAIN sessions /\ child[2] = "running"

\* the segments of the path of a url (the text before '?')
Segments(url) == SplitSlash(BeforeQuery(url))
HasParent(url) == \E i \in 1..Len(Segments(url)) : Segments(url)[i] = << ".", "." >>
\* a response to a request to a mount whose root was configured when the
\* request was handled
Served == response # NoResponse /\ response.root # None
\* the path the response was resolved to, without the root
Below(root) == SubSeq(response.resolved, Len(root) + 1, Len(response.resolved))
IsName(part) ==
  /\ part \notin { << >>, << "." >>, << ".", "." >> }
  /\ \A i \in 1..Len(part) : part[i] \notin { "/", "?" }

\* C16 as stated: a request with a ".." segment is answered 403 and no file
\* is looked at; the path of any other answer is the root followed only by
\* non-empty, non-"." segments of the request.
C16_Original ==
  Served =>
    /\ HasParent(request) => response.status = 403 /\ response.fs = "none"
    /\ response.status # 403 =>
         /\ StartsWith(response.resolved, response.root[1])
         /\ \A i \in 1..Len(Below(response.root[1])) :
              \E m \in 1..Len(Segments(request)) :
                /\ Segments(request)[m] = Below(response.root[1])[i]
                /\ Segments(request)[m] \notin { << >>, << "." >> }

\* C16: a request with a ".." segment is answered 403 and no file is looked
\* at; the path of any other answer is the root followed by the non-empty,
\* non-"." segments of what follows the mount in the path of the url, in
\* order, and by index.html when that is empty or ends with '/'; each of
\* them is a plain name, so the path is below the root.
C16_PathBelowRoot ==
  Served =>
    /\ HasParent(request) => response.status = 403 /\ response.fs = "none"
    /\ response.status # 403 =>
         LET root == response.root[1]
             rest == TrimStartMatches(BeforeQuery(Route(request).path), << "/" >>)
             dir == rest = << >> \/ rest[Len(rest)] = "/"
             names == SelectSeq(SplitSlash(rest),
                                LAMBDA p : p \notin { << >>, << "." >> })
         IN /\ response.resolved = root \o names \o (IF dir THEN << IndexHtml >> ELSE << >>)
            /\ \A i \in 1..Len(Below(root)) : IsName(Below(root)[i])
C16_Witness ==
  /\ response.status = 403 /\ HasParent(request)
  /\ StartsWith(request, ViewerMount) /\ response.root = Some(ViewerDir)

\* thread t holds none of the locks of a session
HoldsNone(t) ==
  \A k \in Slots : writerLock[k] # t /\ masterLock[k] # t /\ childLock[k] # t
\* the map operation of a handler that holds the registry
MapOperation(c) == SessionsInsert(c) \/ SessionsGet(c) \/ SessionsValues(c)
\* the terminal or process I/O of a handler that holds a lock of a session
SessionIo(c) ==
  \/ PtyWriteByte(c) \/ PtyWriteFail(c) \/ \E b \in BOOLEAN : PtyWriteFlush(c, b)
  \/ \E b \in BOOLEAN : MasterResize(c, b)
  \/ ChildKill(c)
\* handler c waits for a lock of its session that is held by an operation on
\* that same session
WaitsOnOwnSession(c) ==
  LET s == call[c].sess
      Working(d, p) == d \in Callers /\ call[d].pc = p /\ call[d].sess = s
  IN \/ call[c].pc = "w_lock" /\ Working(writerLock[s], "w_write")
     \/ call[c].pc = "m_lock" /\ Working(masterLock[s], "m_resize")
     \/ /\ call[c].pc = "ch_lock"
        /\ \/ Working(childLock[s], "ch_kill")
           \/ childLock[s] = WatcherId(s) /\ watcher[s] = "try_wait"

\* C17: the registry lock is held only across the map operation, by a thread
\* that holds no lock of a session and that can always carry on and release
\* it; a thread that does or waits for I/O on a session does not hold it; a
\* handler that cannot go on waits either for the registry or for a lock of
\* its own session held by an operation on that session, so I/O on one
\* session holds up nothing on another; and whoever holds a lock can go on,
\* so no set of threads waits for each other.
C17_RegistryLockScope ==
  /\ \A c \in Callers :
       /\ sessionsLock = c <=> call[c].pc = "s_op"
       /\ sessionsLock = c => HoldsNone(c) /\ ENABLED MapOperation(c)
       /\ ~HoldsNone(c) => ENABLED SessionIo(c)
       /\ call[c].pc # "idle" /\ ~ENABLED CallerStep(c) =>
            \/ call[c].pc = "s_lock" /\ sessionsLock # NoOwner
            \/ WaitsOnOwnSession(c)
  /\ \A k \in Slots :
       /\ sessionsLock = WatcherId(k) <=> watcher[k] = "removing"
       /\ sessionsLock = WatcherId(k) =>
            HoldsNone(WatcherId(k)) /\ ENABLED WatcherSessionsRemove(k)
       /\ ~HoldsNone(WatcherId(k)) =>
            \E r \in { "exited", "running" } : ENABLED WatcherTryWait(k, r)
  /\ (\E c \in Callers : call[c].pc # "idle") =>
       ENABLED ((\E c \in Callers : CallerStep(c)) \/ (\E k \in Slots : WatcherStep(k)))
\* a write is in its I/O on one session while a call on another session
\* holds the registry
C17_Witness ==
  \E c, d \in Callers :
    /\ call[c].pc = "w_write" /\ writerLock[call[c].sess] = c
    /\ call[d].pc = "s_op" /\ sessionsLock = d
    /\ call[d].sess # call[c].sess

\* C20: the watcher's try_wait and a kill's signal on a session are done only
\* by the holder of the session's child lock, which is one thread at a time,
\* so they never coincide; the watcher does not hold the lock while it
\* sleeps, and a kill that waits for the watcher waits for a try_wait that
\* is under way.
C20_PollKillExclusive ==
  \A k \in Slots :
    /\ watcher[k] = "try_wait" <=> childLock[k] = WatcherId(k)
    /\ \A c \in Callers :
         (call[c].pc = "ch_kill" /\ call[c].sess = k) <=> childLock[k] = c
    /\ \A c \in Callers :
         ~(watcher[k] = "try_wait" /\ call[c].pc = "ch_kill" /\ call[c].sess = k)
    /\ \A c, d \in Callers :
         call[c].pc = "ch_kill" /\ call[d].pc = "ch_kill" /\ c # d
           => call[c].sess # call[d].sess
    /\ watcher[k] = "sleep" => childLock[k] = NoOwner \/ childLock[k] \in Callers
    /\ \A c \in Callers :
         call[c].pc = "ch_lock" /\ call[c].sess = k /\ childLock[k] = WatcherId(k)
           => \E r \in { "err", "exited", "running" } : ENABLED WatcherTryWait(k, r)
\* a kill waits for the child lock while the watcher of the session polls
C20_Witness ==
  \E c \in Callers :
    /\ call[c].pc = "ch_lock"
    /\ watcher[call[c].sess] = "try_wait"
    /\ childLock[call[c].sess] = WatcherId(call[c].sess)

\* C22 as stated: no output event of a session or job is published after
\* its exit event, and no chunk is appended to terminal.log after
\* job_result.json has been written.
C22_Original ==
  /\ [](\A k \in Slots : ~lateOutput[k])
  /\ [][\A j \in Jobs :
          /\ jobOutput'[j] # jobOutput[j] => jobExit[j] = << >>
          /\ termLog'[j] # termLog[j] => jobResult[j] = << >>]_vars

\* C22: the exit event of a session or job is published at most once, and
\* once its pump has ended on the closure of the stream no output event is
\* published for it and no chunk is appended to its terminal.log; until
\* then the pump goes on, whatever the watcher has published or written.
C22_NoOutputAfterPumpEnds ==
  /\ [](/\ \A k \in Slots : Len(exitEvents[k]) <= 1
        /\ \A j \in Jobs : Len(jobExit[j]) <= 1)
  /\ [][/\ \A k \in Slots :
             pump[k] = "done" => pump'[k] = "done" /\ lateOutput'[k] = lateOutput[k]
        /\ \A j \in Jobs :
             jpump[j] = "done" =>
               /\ jpump'[j] = "done"
               /\ jobOutput'[j] = jobOutput[j]
               /\ termLog'[j] = termLog[j]
               /\ chunksRead'[j] = chunksRead[j]]_vars
\* output was published after the exit event of a session, then its pump
\* ended as well
C22_Witness ==
  \E k \in Slots :
    lateOutput[k] /\ pump[k] = "done" /\ watcher[k] = "done"

\* handler c works on session k, which it looked up
InFlight(c, k) ==
  call[c].sess = k /\ call[c].pc \in { "w_lock", "w_write", "r_apply", "k_signal" }
\* the next step of a handler that has looked its session up
HandlerStep(c) ==
  \/ PtyWriteLock(c) \/ PtyWriteByte(c) \/ PtyWriteFail(c)
  \/ \E b \in BOOLEAN : PtyWriteFlush(c, b)
  \/ \E b \in BOOLEAN : PtyResizeApply(c, b)
  \/ PtyKillSignal(c)

\* C21: the handles of a session are dropped only when its registry entry
\* has been removed, its exit watcher has ended and no handler that looked
\* it up is still at work; a handler at work on a session that has been
\* removed finds the handles in place and can go on to its return (a write
\* waits at most for another write on the same session).
C21_DroppedAfterLastHolder ==
  \A k \in Slots :
    /\ released[k] =>
         /\ MapGet(sessions, k) = 0
         /\ watcher[k] = "done"
         /\ \A c \in Callers : ~InFlight(c, k)
    /\ \A c \in Callers :
         InFlight(c, k) /\ MapGet(sessions, k) = 0 =>
           /\ ~released[k]
           /\ \/ ENABLED HandlerStep(c)
              \/ /\ call[c].pc = "w_lock"
                 /\ writerLock[k] \in Callers \ {c}
                 /\ ENABLED HandlerStep(writerLock[k])
\* a write looked the session up, then the watcher removed the entry,
\* published and ended, and the write is still under way
C21_Witness ==
  \E c \in Callers, k \in Slots :
    /\ call[c].pc = "w_write" /\ call[c].sess = k
    /\ MapGet(sessions, k) = 0
    /\ watcher[k] = "done"
    /\ ~released[k]

====
